---------------------------- MODULE Spec2Model ----------------------------
(***************************************************************************)
(* A model of the KONE maintenance dashboard's data core: the duration     *)
(* codec (time_str_to_seconds / seconds_to_time_str), the keyword column   *)
(* detector (find_column_by_keywords / detect_columns), the loader with    *)
(* its forward-fill (load_excel), and the list / filter / statistics       *)
(* functions of src/app.py and src/data_processor.py.                      *)
(*                                                                         *)
(* Text is modelled by TLA+ strings, read character by character, so that  *)
(* splitting, integer parsing, zero padding, lower-casing and substring    *)
(* search are computed the way the Python code computes them.              *)
(***************************************************************************)
EXTENDS Integers, Sequences, FiniteSets, TLC

VARIABLES
    fields,      \* how the duration input text was built (one entry per ':'-separated part)
    time_cell,   \* the duration cell handed to time_str_to_seconds
    secs,        \* the seconds: time_str_to_seconds' result, or the number to format
    rendered,    \* seconds_to_time_str's result
    secs_back,   \* time_str_to_seconds of the rendered text
    dpc,         \* position in the duration pipeline
    df_raw,      \* the table pd.read_excel returns for the uploaded file
    df,          \* the loaded table (st.session_state.data)
    cols_dict,   \* the detected columns (st.session_state.columns_dict)
    call,        \* the last call into the core: its name and arguments
    ret,         \* what that call returned
    tpc,         \* position in the table pipeline, or in the session
    selected_main,  \* st.session_state.selected_main
    selected_sub,   \* st.session_state.selected_sub
    view_mode       \* the view chosen in the sidebar

durVars == <<fields, time_cell, secs, rendered, secs_back, dpc>>

tblVars == <<df_raw, df, cols_dict, call, ret, tpc>>

sessVars == <<selected_main, selected_sub, view_mode>>

vars == <<fields, time_cell, secs, rendered, secs_back, dpc,
          df_raw, df, cols_dict, call, ret, tpc,
          selected_main, selected_sub, view_mode>>

----------------------------------------------------------------------------
(* Bounds of the model.                                                    *)

\* most superfluous leading zeros written in front of a field of a duration text
MaxZeros == 2
\* most ':'-separated parts of a duration text
MaxParts == 4
\* largest number of seconds formatted, apart from the sampled long durations
MaxSeconds == 5500
\* most columns of a header handed to the column detector
MaxCols == 3
\* most rows of a table of the hierarchy (category / sub-category) family
MaxRows == 3
\* most rows of a table of the statistics (durations / manpower) family
MaxStatRows == 4

----------------------------------------------------------------------------
(* Characters and text, as Python's str sees them.                         *)

\* the printable ASCII characters in code point order: 32 (space) to 95 (_),
\* and 97 (a) to 126 (~); the grave accent, 96, is left out
AsciiLow == " !\"#$%&'()*+,-./0123456789:;<=>?@ABCDEFGHIJKLMNOPQRSTUVWXYZ[\\]^_"

AsciiHigh == "abcdefghijklmnopqrstuvwxyz{|}~"

CharAt(s, i) == SubSeq(s, i, i)

AsciiChars ==
    {CharAt(AsciiLow, i) : i \in 1..Len(AsciiLow)}
    \cup {CharAt(AsciiHigh, i) : i \in 1..Len(AsciiHigh)}

\* Python's ord() on these characters
ord ==
    [c \in AsciiChars |->
        IF \E i \in 1..Len(AsciiLow) : CharAt(AsciiLow, i) = c
        THEN 31 + (CHOOSE i \in 1..Len(AsciiLow) : CharAt(AsciiLow, i) = c)
        ELSE 96 + (CHOOSE i \in 1..Len(AsciiHigh) : CharAt(AsciiHigh, i) = c)]

\* Python's chr() on their code points
chr(k) == IF k <= 95 THEN CharAt(AsciiLow, k - 31) ELSE CharAt(AsciiHigh, k - 96)

Digits == "0123456789"

IsDigit(c) == ord[c] >= 48 /\ ord[c] <= 57

DigitValue(c) == ord[c] - 48

\* the decimal numeral of a natural number
RECURSIVE NatToText(_)
NatToText(n) ==
    IF n < 10 THEN CharAt(Digits, n + 1)
    ELSE NatToText(n \div 10) \o CharAt(Digits, (n % 10) + 1)

\* str(n) for a Python int
IntToText(n) == IF n < 0 THEN "-" \o NatToText(-n) ELSE NatToText(n)

\* s repeated k times
RECURSIVE Repeat(_, _)
Repeat(s, k) == IF k <= 0 THEN "" ELSE s \o Repeat(s, k - 1)

----------------------------------------------------------------------------
(* Cells of a table as pandas hands them over: a missing value (NaN), an   *)
(* integer or a text.  The three shapes share their fields so that any two *)
(* cells can be compared.                                                  *)

NaN == [t |-> "nan", n |-> 0, s |-> ""]

IntCell(n) == [t |-> "int", n |-> n, s |-> ""]

StrCell(s) == [t |-> "str", n |-> 0, s |-> s]

\* pd.isna
isna(c) == c.t = "nan"

\* Python's str() of a cell value; str(float('nan')) is "nan"
str(c) ==
    CASE c.t = "int" -> IntToText(c.n)
      [] c.t = "str" -> c.s
      [] OTHER -> "nan"

----------------------------------------------------------------------------
(* Python's str.split(sep) for a one-character separator, and int().       *)

RECURSIVE SplitFrom(_, _, _, _)
SplitFrom(s, sep, i, cur) ==
    IF i > Len(s) THEN <<cur>>
    ELSE IF CharAt(s, i) = sep THEN <<cur>> \o SplitFrom(s, sep, i + 1, "")
    ELSE SplitFrom(s, sep, i + 1, cur \o CharAt(s, i))

split(s, sep) == SplitFrom(s, sep, 1, "")

IsSpace(c) == c = " "

RECURSIVE LStrip(_)
LStrip(s) == IF Len(s) > 0 /\ IsSpace(Head(s)) THEN LStrip(Tail(s)) ELSE s

RECURSIVE RStrip(_)
RStrip(s) ==
    IF Len(s) > 0 /\ IsSpace(CharAt(s, Len(s)))
    THEN RStrip(SubSeq(s, 1, Len(s) - 1))
    ELSE s

\* str.strip()
strip(s) == RStrip(LStrip(s))

AllDigits(s) == Len(s) > 0 /\ \A i \in 1..Len(s) : IsDigit(CharAt(s, i))

RECURSIVE DigitsValue(_, _)
DigitsValue(s, acc) ==
    IF Len(s) = 0 THEN acc
    ELSE DigitsValue(Tail(s), acc * 10 + DigitValue(Head(s)))

HasSign(s) == Len(s) > 0 /\ Head(s) \in {"-", "+"}

Unsigned(s) == IF HasSign(s) THEN Tail(s) ELSE s

\* int(p) succeeds: surrounding blanks, an optional sign, then digits only
\* (otherwise int raises ValueError)
int_ok(p) == AllDigits(Unsigned(strip(p)))

\* int(p) where it succeeds
int(p) ==
    LET q == strip(p)
        v == DigitsValue(Unsigned(q), 0)
    IN  IF HasSign(q) /\ Head(q) = "-" THEN -v ELSE v

----------------------------------------------------------------------------
(* The duration codec.                                                     *)

\* time_str_to_seconds that also applies validate_time_format's range check
time_str_to_seconds_validated(time_str) ==
    IF isna(time_str) THEN 0
    ELSE LET parts == split(str(time_str), ":")
         IN  IF /\ Len(parts) = 3
                /\ \A i \in 1..3 : int_ok(parts[i])
                /\ int(parts[2]) <= 59
                /\ int(parts[3]) <= 59
             THEN int(parts[1]) * 3600 + int(parts[2]) * 60 + int(parts[3])
             ELSE 0

\* time_str_to_seconds: a missing cell is 0; a text of exactly three int()
\* parts is h*3600 + m*60 + s; a ValueError of int() is swallowed and anything
\* else falls through to 0
time_str_to_seconds(time_str) ==
    IF isna(time_str) THEN 0
    ELSE LET parts == split(str(time_str), ":")
         IN  IF Len(parts) = 3 /\ \A i \in 1..3 : int_ok(parts[i])
             THEN int(parts[1]) * 3600 + int(parts[2]) * 60 + int(parts[3])
             ELSE 0

\* Python's format(n, "02d"): at least two characters, the sign counted,
\* zeros filled in after the sign
Format02d(n) ==
    IF n < 0 THEN "-" \o NatToText(-n)
    ELSE IF n < 10 THEN "0" \o NatToText(n)
    ELSE NatToText(n)

\* seconds_to_time_str with the minutes not reduced modulo the hour
seconds_to_time_str_total_minutes(seconds) ==
    LET hours   == seconds \div 3600
        minutes == seconds \div 60
        ss      == seconds % 60
    IN  Format02d(hours) \o ":" \o Format02d(minutes) \o ":" \o Format02d(ss)

\* seconds_to_time_str without the zero padding
seconds_to_time_str_unpadded(seconds) ==
    LET hours   == seconds \div 3600
        minutes == (seconds % 3600) \div 60
        ss      == seconds % 60
    IN  IntToText(hours) \o ":" \o IntToText(minutes) \o ":" \o IntToText(ss)

\* seconds_to_time_str: // and % are Python's floor division and modulus
seconds_to_time_str(seconds) ==
    LET hours   == seconds \div 3600
        minutes == (seconds % 3600) \div 60
        ss      == seconds % 60
    IN  Format02d(hours) \o ":" \o Format02d(minutes) \o ":" \o Format02d(ss)

----------------------------------------------------------------------------
(* Optional values: None is the empty tuple, a value x is <<x>>.           *)

None == <<>>

Some(x) == <<x>>

\* Python's truth test of an optional text: None and "" are false
Truthy(o) == o # None /\ o[1] # ""

----------------------------------------------------------------------------
(* The column detector.                                                    *)

\* str.lower() that leaves the capitals as they are
lower_keep_case(s) == s

\* str.lower() on ASCII text
RECURSIVE lower(_)
lower(s) ==
    IF Len(s) = 0 THEN ""
    ELSE LET c == Head(s)
         IN  (IF ord[c] >= 65 /\ ord[c] <= 90 THEN chr(ord[c] + 32) ELSE c)
                 \o lower(Tail(s))

\* Python's "kw in s" for texts
contains(s, kw) ==
    \E i \in 1..(Len(s) - Len(kw) + 1) : SubSeq(s, i, i + Len(kw) - 1) = kw

\* col_lower: the names of the header lower-cased and stripped
col_lower_of(col_names) ==
    [i \in 1..Len(col_names) |-> strip(lower(col_names[i]))]

\* the first position of col_lower that contains the keyword, 0 when there is
\* none (the inner loop of find_column_by_keywords)
RECURSIVE FirstColumnWith(_, _, _)
FirstColumnWith(col_lower, keyword, i) ==
    IF i > Len(col_lower) THEN 0
    ELSE IF contains(col_lower[i], lower(keyword)) THEN i
    ELSE FirstColumnWith(col_lower, keyword, i + 1)

\* find_column_by_keywords with the loops exchanged: columns outside, keywords inside
RECURSIVE find_column_header_first(_, _, _, _)
find_column_header_first(col_names, col_lower, keywords, i) ==
    IF i > Len(col_names) THEN None
    ELSE IF \E k \in 1..Len(keywords) : contains(col_lower[i], lower(keywords[k]))
         THEN Some(col_names[i])
         ELSE find_column_header_first(col_names, col_lower, keywords, i + 1)

\* find_column_by_keywords from the k-th keyword on: the keywords are tried in
\* list order, and for each one the columns in header order
RECURSIVE find_column_from(_, _, _, _)
find_column_from(col_names, col_lower, keywords, k) ==
    IF k > Len(keywords) THEN None
    ELSE LET i == FirstColumnWith(col_lower, keywords[k], 1)
         IN  IF i > 0 THEN Some(col_names[i])
             ELSE find_column_from(col_names, col_lower, keywords, k + 1)

find_column_by_keywords_header_first(col_names, keywords) ==
    find_column_header_first(col_names, col_lower_of(col_names), keywords, 1)

\* find_column_by_keywords that returns the name as it was compared
\* (col_lower[i] in place of col_names[i])
find_column_by_keywords_folded_name(col_names, keywords) ==
    LET found == find_column_from(col_names, col_lower_of(col_names), keywords, 1)
    IN  IF found = None THEN None ELSE Some(strip(lower(found[1])))

\* find_column_by_keywords
find_column_by_keywords(col_names, keywords) ==
    find_column_from(col_names, col_lower_of(col_names), keywords, 1)

\* the keyword lists of detect_columns, by key of columns_found
Keywords ==
    [main          |-> <<"module", "main", "category">>,
     sub           |-> <<"sub", "sub_module", "submodule", "group">>,
     component     |-> <<"component", "item", "name", "equipment", "device">>,
     prep_time     |-> <<"prep", "preparation", "setup", "finalization">>,
     activity_time |-> <<"activity", "work", "execution", "action">>,
     total_time    |-> <<"total", "total_time", "duration">>,
     manpower      |-> <<"man", "power", "personnel", "people", "workers", "staff">>]

Roles == DOMAIN Keywords

\* columns_found before detection (also the {} of a fresh session, whose
\* .get(key) is None for every key)
NoColumns == [r \in Roles |-> None]

\* detect_columns that accepts a sub column only if its name also contains "module"
detect_columns_sub_needs_module(col_names) ==
    [r \in Roles |->
        IF r = "sub"
        THEN LET found == find_column_by_keywords(col_names, <<"sub">>)
             IN  IF found # None /\ contains(strip(lower(found[1])), "module")
                 THEN found ELSE None
        ELSE find_column_by_keywords(col_names, Keywords[r])]

\* detect_columns
detect_columns(col_names) ==
    [r \in Roles |-> find_column_by_keywords(col_names, Keywords[r])]

----------------------------------------------------------------------------
(* Tables.  A table has a header (its column names, unique) and rows; a    *)
(* row holds one cell per column, in header order.                         *)

Table(columns, rows) == [none |-> FALSE, columns |-> columns, rows |-> rows]

\* Python's None where a DataFrame is expected
NoTable == [none |-> TRUE, columns |-> <<>>, rows |-> <<>>]

NoCall == [op |-> "none"]

TableIdle ==
    /\ df_raw = NoTable
    /\ df = NoTable
    /\ cols_dict = NoColumns
    /\ call = NoCall
    /\ ret = None
    /\ tpc = "idle"

\* a fresh session: nothing selected, the first view shown
SessionIdle ==
    /\ selected_main = None
    /\ selected_sub = <<>>
    /\ view_mode = "Table View"

DurationIdle ==
    /\ fields = <<>>
    /\ time_cell = NaN
    /\ secs = 0
    /\ rendered = ""
    /\ secs_back = 0
    /\ dpc = "idle"

----------------------------------------------------------------------------
(* The detector applied to headers.                                        *)

HeaderNames ==
    {"Module", "Main X", "Sub Module", "Sub Category", "Group", "Component",
     "Total time", "No of man power", " MODULE ", "Duration", "Total Manpower",
     "S.no"}

IsInjective(f) == \A i, j \in DOMAIN f : f[i] = f[j] => i = j

\* a header none of whose names is one of the default ones
ScenarioHeader ==
    <<"Main Category", "Sub Category", "Item Name", "Prep Time", "Work Time",
      "Total Duration", "Staff Count">>

\* the headers of up to MaxCols distinct names, and the one above
Headers ==
    UNION {{h \in [1..k -> HeaderNames] : IsInjective(h)} : k \in 0..MaxCols}
        \cup {ScenarioHeader}

InitDetect ==
    /\ DurationIdle
    /\ SessionIdle
    /\ \E h \in Headers : df_raw = Table(h, <<>>)
    /\ df = NoTable
    /\ cols_dict = NoColumns
    /\ call = NoCall
    /\ ret = None
    /\ tpc = "read"

\* cols_dict = detect_columns(df)
DetectColumns ==
    /\ tpc = "read"
    /\ cols_dict' = detect_columns(df_raw.columns)
    /\ call' = [op |-> "detect_columns"]
    /\ tpc' = "detected"
    /\ UNCHANGED <<df_raw, df, ret>>
    /\ UNCHANGED durVars
    /\ UNCHANGED sessVars

NextDetect == DetectColumns

SpecDetect == InitDetect /\ [][NextDetect]_vars

----------------------------------------------------------------------------
(* Columns of a table, and the pandas operations the core applies to them. *)

\* "name in df.columns"
HasColumn(d, name) == \E i \in 1..Len(d.columns) : d.columns[i] = name

ColumnIndex(d, name) == CHOOSE i \in 1..Len(d.columns) : d.columns[i] = name

\* df[name]: the cells of the column, top to bottom
Column(d, name) ==
    [i \in 1..Len(d.rows) |-> d.rows[i][ColumnIndex(d, name)]]

\* df[name] = col
SetColumn(d, name, col) ==
    [d EXCEPT !.rows =
        [i \in 1..Len(d.rows) |->
            [d.rows[i] EXCEPT ![ColumnIndex(d, name)] = col[i]]]]

\* the rows at the given positions, in their original order (boolean-mask indexing)
RECURSIVE RowsAt(_, _, _)
RowsAt(rows, keep, i) ==
    IF i > Len(rows) THEN <<>>
    ELSE (IF i \in keep THEN <<rows[i]>> ELSE <<>>) \o RowsAt(rows, keep, i + 1)

\* Series.fillna(method='ffill') that fills every gap with the column's first value
fill_with_first_value(col) ==
    LET present == {i \in 1..Len(col) : ~isna(col[i])}
    IN  [i \in 1..Len(col) |->
            IF isna(col[i]) /\ \E j \in present : j < i
            THEN col[CHOOSE j \in present : \A k \in present : j <= k]
            ELSE col[i]]

\* Series.fillna(method='ffill') that looks one cell up only: a missing cell
\* takes the cell right above it as that was before the fill
ffill_one_step(col) ==
    [i \in 1..Len(col) |-> IF isna(col[i]) /\ i > 1 THEN col[i - 1] ELSE col[i]]

RECURSIVE ffill_from(_, _, _)
ffill_from(col, i, last) ==
    IF i > Len(col) THEN <<>>
    ELSE LET v == IF isna(col[i]) THEN last ELSE col[i]
         IN  <<v>> \o ffill_from(col, i + 1, v)

\* Series.fillna(method='ffill'): a missing cell takes the last value seen above it
ffill(col) == ffill_from(col, 1, NaN)

\* Series.dropna()
dropna(col) == SelectSeq(col, LAMBDA c : ~isna(c))

RECURSIVE unique_from(_, _, _)
unique_from(col, i, seen) ==
    IF i > Len(col) THEN <<>>
    ELSE IF col[i] \in seen THEN unique_from(col, i + 1, seen)
    ELSE <<col[i]>> \o unique_from(col, i + 1, seen \cup {col[i]})

\* Series.unique(): the distinct values in order of first appearance; the
\* values are compared as they are, so the number 1 and the text "1" are two
unique(col) == unique_from(col, 1, {})

\* a < b for Python texts: by code point, a proper prefix first
RECURSIVE StrLess(_, _)
StrLess(a, b) ==
    IF Len(b) = 0 THEN FALSE
    ELSE IF Len(a) = 0 THEN TRUE
    ELSE IF Head(a) = Head(b) THEN StrLess(Tail(a), Tail(b))
    ELSE ord[Head(a)] < ord[Head(b)]

RECURSIVE InsertSorted(_, _)
InsertSorted(x, xs) ==
    IF Len(xs) = 0 THEN <<x>>
    ELSE IF StrLess(x, Head(xs)) THEN <<x>> \o xs
    ELSE <<Head(xs)>> \o InsertSorted(x, Tail(xs))

\* sorted() of a list of texts
RECURSIVE sorted(_)
sorted(xs) == IF Len(xs) = 0 THEN <<>> ELSE InsertSorted(Head(xs), sorted(Tail(xs)))

\* [str(x) for x in col]; also Series.astype(str)
StrEach(col) == [i \in 1..Len(col) |-> str(col[i])]

----------------------------------------------------------------------------
(* load_excel and the list and filter functions of src/app.py.             *)

\* load_excel on the table read from the file: detect the columns, forward
\* fill the main and then the sub column, and hand back table and columns
load_excel(d) ==
    LET cd == detect_columns(d.columns)
        d1 == IF Truthy(cd.main) /\ HasColumn(d, cd.main[1])
              THEN SetColumn(d, cd.main[1], ffill(Column(d, cd.main[1])))
              ELSE d
        d2 == IF Truthy(cd.sub) /\ HasColumn(d1, cd.sub[1])
              THEN SetColumn(d1, cd.sub[1], ffill(Column(d1, cd.sub[1])))
              ELSE d1
    IN  [df |-> d2, cols_dict |-> cd]

\* get_main_values
get_main_values(d, col_dict) ==
    IF d.none \/ col_dict.main = None THEN <<>>
    ELSE IF HasColumn(d, col_dict.main[1])
         THEN sorted(StrEach(unique(dropna(Column(d, col_dict.main[1])))))
         ELSE <<>>

\* get_sub_values that lists the sub values of all rows, whatever their category
get_sub_values_of_all_rows(d, col_dict, main_value) ==
    IF d.none \/ col_dict.main = None \/ col_dict.sub = None THEN <<>>
    ELSE IF HasColumn(d, col_dict.main[1]) /\ HasColumn(d, col_dict.sub[1])
         THEN sorted(StrEach(unique(dropna(Column(d, col_dict.sub[1])))))
         ELSE <<>>

\* get_sub_values: the sub values, as sorted texts, of the rows whose main
\* cell, as text, is the category
get_sub_values(d, col_dict, main_value) ==
    IF d.none \/ col_dict.main = None \/ col_dict.sub = None THEN <<>>
    ELSE IF HasColumn(d, col_dict.main[1]) /\ HasColumn(d, col_dict.sub[1])
         THEN LET main_col == StrEach(Column(d, col_dict.main[1]))
                  in_main == {i \in 1..Len(d.rows) : main_col[i] = main_value}
                  filtered == Table(d.columns, RowsAt(d.rows, in_main, 1))
              IN  sorted(StrEach(unique(dropna(Column(filtered, col_dict.sub[1])))))
         ELSE <<>>

\* filter_data that compares the cells with the selection as they are, not as texts
filter_data_raw_compare(d, col_dict, main_value, sub_values) ==
    IF d.none \/ col_dict.main = None THEN NoTable
    ELSE LET main_col == Column(d, col_dict.main[1])
             in_main == {i \in 1..Len(d.rows) : main_col[i] = StrCell(main_value)}
             in_sub ==
                 IF sub_values # {} /\ Truthy(col_dict.sub) /\ HasColumn(d, col_dict.sub[1])
                 THEN {i \in in_main :
                          Column(d, col_dict.sub[1])[i] \in {StrCell(v) : v \in sub_values}}
                 ELSE in_main
         IN  Table(d.columns, RowsAt(d.rows, in_sub, 1))

\* filter_data that answers a missing main column with a table without rows
filter_data_empty_without_main(d, col_dict, main_value, sub_values) ==
    IF d.none THEN NoTable
    ELSE IF col_dict.main = None THEN Table(d.columns, <<>>)
    ELSE LET main_col == StrEach(Column(d, col_dict.main[1]))
             in_main == {i \in 1..Len(d.rows) : main_col[i] = main_value}
             in_sub ==
                 IF sub_values # {} /\ Truthy(col_dict.sub) /\ HasColumn(d, col_dict.sub[1])
                 THEN {i \in in_main :
                          StrEach(Column(d, col_dict.sub[1]))[i] \in sub_values}
                 ELSE in_main
         IN  Table(d.columns, RowsAt(d.rows, in_sub, 1))

\* filter_data: None (NoTable) without a table or a main column; else the rows
\* whose main cell, as text, is the selection, cut down to the chosen sub
\* values only if some are chosen and a sub column was detected
filter_data(d, col_dict, main_value, sub_values) ==
    IF d.none \/ col_dict.main = None THEN NoTable
    ELSE LET main_col == StrEach(Column(d, col_dict.main[1]))
             in_main == {i \in 1..Len(d.rows) : main_col[i] = main_value}
             in_sub ==
                 IF sub_values # {} /\ Truthy(col_dict.sub) /\ HasColumn(d, col_dict.sub[1])
                 THEN {i \in in_main :
                          StrEach(Column(d, col_dict.sub[1]))[i] \in sub_values}
                 ELSE in_main
         IN  Table(d.columns, RowsAt(d.rows, in_sub, 1))

----------------------------------------------------------------------------
(* The hierarchy tables: two columns, the first holding numbers and texts, *)
(* the second texts, under headers that give the columns different roles.  *)

HierarchyHeaders ==
    {<<"Module", "Sub Module">>,     \* main is column 1, sub is column 2
     <<"Sub Group", "Category">>,    \* sub is column 1, main is column 2
     <<"Sub Module", "Part">>,       \* main and sub are both column 1
     <<"Module", "Part">>}           \* main is column 1, no sub column

FirstCells == {NaN, IntCell(1), StrCell("1")}

SecondCells == {NaN, StrCell("H"), StrCell("L")}

HierarchyRows == {<<a, b>> : a \in FirstCells, b \in SecondCells}

HierarchyTables ==
    {Table(h, rows) : h \in HierarchyHeaders,
                      rows \in UNION {[1..k -> HierarchyRows] : k \in 0..MaxRows}}

\* the category and sub-category selections handed to filter_data
MainArgs == {"1", "H", "nan"}

SubArgs == {{}, {"H"}, {"H", "L"}, {"1"}}

InitTable ==
    /\ DurationIdle
    /\ SessionIdle
    /\ df_raw \in HierarchyTables
    /\ df = NoTable
    /\ cols_dict = NoColumns
    /\ call = NoCall
    /\ ret = None
    /\ tpc = "read"

\* df, cols_dict = load_excel(uploaded_file), for a file that can be read
LoadExcel ==
    /\ tpc = "read"
    /\ LET loaded == load_excel(df_raw)
       IN  /\ df' = loaded.df
           /\ cols_dict' = loaded.cols_dict
    /\ call' = [op |-> "load_excel"]
    /\ ret' = None
    /\ tpc' = "loaded"
    /\ UNCHANGED df_raw
    /\ UNCHANGED durVars
    /\ UNCHANGED sessVars

\* get_main_values(st.session_state.data, col_dict)
GetMainValues ==
    /\ tpc = "loaded"
    /\ ret' = get_main_values(df, cols_dict)
    /\ call' = [op |-> "get_main_values"]
    /\ tpc' = "called"
    /\ UNCHANGED <<df_raw, df, cols_dict>>
    /\ UNCHANGED durVars
    /\ UNCHANGED sessVars

\* filter_data(st.session_state.data, col_dict, main_value, sub_values)
FilterData ==
    /\ tpc = "loaded"
    /\ \E main_value \in MainArgs, sub_values \in SubArgs :
          /\ ret' = filter_data(df, cols_dict, main_value, sub_values)
          /\ call' = [op |-> "filter_data", main_value |-> main_value,
                      sub_values |-> sub_values]
    /\ tpc' = "called"
    /\ UNCHANGED <<df_raw, df, cols_dict>>
    /\ UNCHANGED durVars
    /\ UNCHANGED sessVars

\* get_sub_values(st.session_state.data, col_dict, main_value)
GetSubValues ==
    /\ tpc = "loaded"
    /\ \E main_value \in MainArgs :
          /\ ret' = get_sub_values(df, cols_dict, main_value)
          /\ call' = [op |-> "get_sub_values", main_value |-> main_value]
    /\ tpc' = "called"
    /\ UNCHANGED <<df_raw, df, cols_dict>>
    /\ UNCHANGED durVars
    /\ UNCHANGED sessVars

NextTable == LoadExcel \/ GetMainValues \/ GetSubValues \/ FilterData

SpecTable == InitTable /\ [][NextTable]_vars

----------------------------------------------------------------------------
(* DataFrame.to_csv(index=False) and prepare_export_csv of                 *)
(* src/data_processor.py.                                                  *)

\* a text handed back by a function
Text(s) == [text |-> s]

\* the csv writer's field: as it is, or in double quotes, with its double
\* quotes doubled, when it holds a comma, a double quote or a line break
RECURSIVE DoubleQuotes(_)
DoubleQuotes(s) ==
    IF Len(s) = 0 THEN ""
    ELSE (IF Head(s) = Head("\"") THEN "\"\"" ELSE SubSeq(s, 1, 1))
             \o DoubleQuotes(Tail(s))

CsvField(s) ==
    IF contains(s, ",") \/ contains(s, "\"") \/ contains(s, "\n") \/ contains(s, "\r")
    THEN "\"" \o DoubleQuotes(s) \o "\""
    ELSE s

\* a cell as to_csv writes it: nothing for a missing cell
CsvCell(c) == IF isna(c) THEN "" ELSE CsvField(str(c))

\* the fields of a line, separated by commas, and the line terminator
RECURSIVE CsvLine(_)
CsvLine(parts) ==
    IF Len(parts) = 0 THEN "\n"
    ELSE IF Len(parts) = 1 THEN Head(parts) \o "\n"
    ELSE Head(parts) \o "," \o CsvLine(Tail(parts))

RECURSIVE CsvRows(_, _)
CsvRows(rows, i) ==
    IF i > Len(rows) THEN ""
    ELSE CsvLine([k \in 1..Len(rows[i]) |-> CsvCell(rows[i][k])])
             \o CsvRows(rows, i + 1)

\* DataFrame.to_csv(index=False): the header line, then a line per row
to_csv(d) ==
    CsvLine([k \in 1..Len(d.columns) |-> CsvField(d.columns[k])])
        \o CsvRows(d.rows, 1)

\* prepare_export_csv: the empty text for no table or no rows, else to_csv
prepare_export_csv(d) ==
    IF d.none \/ Len(d.rows) = 0 THEN Text("") ELSE Text(to_csv(d))

----------------------------------------------------------------------------
(* Normalisation on tables of three columns, under headers in which a role *)
(* is missing or two roles share a column.                                 *)

NormalizeHeaders ==
    {<<"Module", "Sub Module", "Component">>,     \* one column per role
     <<"Module", "Sub Component", "Component">>,  \* component is the sub column
     <<"Sub Group", "Part", "Item">>,             \* no main column
     <<"Item Category", "Group", "Staff">>}       \* component is the main column

ThirdCells == {NaN, IntCell(1)}

NormalizeRows ==
    {<<a, b, c>> : a \in {NaN, StrCell("H")}, b \in {NaN, StrCell("L")},
                   c \in ThirdCells}

NormalizeTables ==
    {Table(h, rows) : h \in NormalizeHeaders,
                      rows \in UNION {[1..k -> NormalizeRows] : k \in 0..MaxRows}}

InitNormalize ==
    /\ DurationIdle
    /\ SessionIdle
    /\ df_raw \in NormalizeTables
    /\ df = NoTable
    /\ cols_dict = NoColumns
    /\ call = NoCall
    /\ ret = None
    /\ tpc = "read"

\* load_excel on a file that holds the table as it was stored
LoadAgain ==
    /\ tpc = "loaded"
    /\ ret' = load_excel(df)
    /\ call' = [op |-> "load_again"]
    /\ tpc' = "called"
    /\ UNCHANGED <<df_raw, df, cols_dict>>
    /\ UNCHANGED durVars
    /\ UNCHANGED sessVars

\* prepare_export_csv(df)
PrepareExportCsv ==
    /\ tpc = "loaded"
    /\ ret' = prepare_export_csv(df)
    /\ call' = [op |-> "prepare_export_csv"]
    /\ tpc' = "called"
    /\ UNCHANGED <<df_raw, df, cols_dict>>
    /\ UNCHANGED durVars
    /\ UNCHANGED sessVars

NextNormalize == LoadExcel \/ LoadAgain \/ FilterData \/ PrepareExportCsv

SpecNormalize == InitNormalize /\ [][NextNormalize]_vars

----------------------------------------------------------------------------
(* The statistics functions: calculate_stats of src/app.py, which works on *)
(* the detected columns, and calculate_summary_stats of                    *)
(* src/data_processor.py, which works on fixed column names.               *)

RECURSIVE SumSeq(_)
SumSeq(xs) == IF Len(xs) = 0 THEN 0 ELSE Head(xs) + SumSeq(Tail(xs))

MaxOf(xs) == CHOOSE x \in {xs[i] : i \in 1..Len(xs)} : \A i \in 1..Len(xs) : xs[i] <= x

MinOf(xs) == CHOOSE x \in {xs[i] : i \in 1..Len(xs)} : \A i \in 1..Len(xs) : x <= xs[i]

\* a mean kept as the fraction sum / count
Mean(xs) == [num |-> SumSeq(xs), den |-> Len(xs)]

\* the integer 0 that the statistics start from
Zero == [num |-> 0, den |-> 1]

\* pd.to_numeric(col, errors='coerce'): a number stays, a text that reads as an
\* integer becomes that integer, any other text and a missing cell become NaN
to_numeric(col) ==
    [i \in 1..Len(col) |->
        CASE col[i].t = "int" -> col[i]
          [] col[i].t = "str" /\ int_ok(col[i].s) -> IntCell(int(col[i].s))
          [] OTHER -> NaN]

\* the numbers of a column of integer cells
Numbers(col) == [i \in 1..Len(col) |-> col[i].n]

\* calculate_stats: {} for no table or no rows; else the record count, the
\* summed total time and, over the cells that to_numeric keeps, the manpower
\* sum and mean (both stay 0 when no cell is kept or the column is not found)
calculate_stats(d, col_dict) ==
    IF d.none \/ Len(d.rows) = 0 THEN <<>>
    ELSE LET total ==
                 IF Truthy(col_dict.total_time) /\ HasColumn(d, col_dict.total_time[1])
                 THEN SumSeq([i \in 1..Len(d.rows) |->
                         time_str_to_seconds(Column(d, col_dict.total_time[1])[i])])
                 ELSE 0
             known == Truthy(col_dict.manpower) /\ HasColumn(d, col_dict.manpower[1])
             manpower ==
                 IF known
                 THEN Numbers(dropna(to_numeric(Column(d, col_dict.manpower[1]))))
                 ELSE <<>>
         IN  [records        |-> Len(d.rows),
              total_time     |-> total,
              total_manpower |-> IF Len(manpower) > 0 THEN SumSeq(manpower) ELSE 0,
              avg_manpower   |-> IF Len(manpower) > 0 THEN Mean(manpower) ELSE Zero]

\* an exception leaving a function
Raises(kind) == [exception |-> kind]

Raised(r) == "exception" \in DOMAIN r

PrepColumn == "Preparation/Finalization (h:mm:ss)"

ActivityColumn == "Activity (h:mm:ss)"

TotalColumn == "Total time (h:mm:ss)"

ManpowerColumn == "No of man power"

\* calculate_summary_stats: zeros for no table or no rows; a KeyError if one
\* of its four columns is not in the table; a TypeError from Series.mean() if a
\* text is among the manpower cells left by dropna(); else the statistics
calculate_summary_stats(d) ==
    IF d.none \/ Len(d.rows) = 0
    THEN [total_sub_components   |-> 0,
          total_preparation_time |-> 0,
          total_activity_time    |-> 0,
          total_time             |-> 0,
          avg_manpower           |-> Zero,
          total_manpower         |-> 0,
          max_manpower           |-> 0,
          min_manpower           |-> 0]
    ELSE IF \E c \in {PrepColumn, ActivityColumn, TotalColumn, ManpowerColumn} :
                ~HasColumn(d, c)
    THEN Raises("KeyError")
    ELSE LET seconds_of(c) ==
                 SumSeq([i \in 1..Len(d.rows) |-> time_str_to_seconds(Column(d, c)[i])])
             manpower_values == dropna(Column(d, ManpowerColumn))
         IN  IF \E i \in 1..Len(manpower_values) : manpower_values[i].t = "str"
             THEN Raises("TypeError")
             ELSE LET m == Numbers(manpower_values)
                  IN  [total_sub_components   |-> Len(d.rows),
                       total_preparation_time |-> seconds_of(PrepColumn),
                       total_activity_time    |-> seconds_of(ActivityColumn),
                       total_time             |-> seconds_of(TotalColumn),
                       avg_manpower   |-> IF Len(m) > 0 THEN Mean(m) ELSE Zero,
                       total_manpower |-> IF Len(m) > 0 THEN SumSeq(m) ELSE 0,
                       max_manpower   |-> IF Len(m) > 0 THEN MaxOf(m) ELSE 0,
                       min_manpower   |-> IF Len(m) > 0 THEN MinOf(m) ELSE 0]

\* generate_summary_report: the fixed text for no table or no rows; else the
\* statistics are computed (what they raise leaves the function) and the
\* report is formatted, which raises ValueError at the average manpower
\* field, whose format specification '.1f:<25' no number accepts
generate_summary_report(d, component_name) ==
    IF d.none \/ Len(d.rows) = 0 THEN Text("No data to generate report")
    ELSE LET stats == calculate_summary_stats(d)
         IN  IF Raised(stats) THEN stats ELSE Raises("ValueError")

----------------------------------------------------------------------------
(* The statistics tables: the three duration columns and the manpower      *)
(* column under the names both statistics functions find.                  *)

StatsHeader == <<PrepColumn, ActivityColumn, TotalColumn, ManpowerColumn>>

PrepCells == {StrCell("00:10:00")}

ActivityCells == {StrCell("00:20:00")}

TotalCells == {StrCell("00:30:00")}

ManpowerCells == {IntCell(2), IntCell(4), StrCell("n/a"), NaN}

StatsRows ==
    {<<p, a, t, m>> : p \in PrepCells, a \in ActivityCells,
                      t \in TotalCells, m \in ManpowerCells}

StatsTables ==
    {Table(StatsHeader, rows) :
        rows \in UNION {[1..k -> StatsRows] : k \in 0..MaxStatRows}}

InitStats ==
    /\ DurationIdle
    /\ SessionIdle
    /\ df_raw \in StatsTables
    /\ df = NoTable
    /\ cols_dict = NoColumns
    /\ call = NoCall
    /\ ret = None
    /\ tpc = "read"

\* calculate_stats(df, col_dict)
CalculateStats ==
    /\ tpc = "loaded"
    /\ ret' = calculate_stats(df, cols_dict)
    /\ call' = [op |-> "calculate_stats"]
    /\ tpc' = "called"
    /\ UNCHANGED <<df_raw, df, cols_dict>>
    /\ UNCHANGED durVars
    /\ UNCHANGED sessVars

\* calculate_summary_stats(df)
CalculateSummaryStats ==
    /\ tpc = "loaded"
    /\ ret' = calculate_summary_stats(df)
    /\ call' = [op |-> "calculate_summary_stats"]
    /\ tpc' = "called"
    /\ UNCHANGED <<df_raw, df, cols_dict>>
    /\ UNCHANGED durVars
    /\ UNCHANGED sessVars

\* the component names handed to generate_summary_report
ComponentNames == {None, Some("H")}

\* generate_summary_report(df, component_name)
GenerateSummaryReport ==
    /\ tpc = "loaded"
    /\ \E component_name \in ComponentNames :
          /\ ret' = generate_summary_report(df, component_name)
          /\ call' = [op |-> "generate_summary_report",
                      component_name |-> component_name]
    /\ tpc' = "called"
    /\ UNCHANGED <<df_raw, df, cols_dict>>
    /\ UNCHANGED durVars
    /\ UNCHANGED sessVars

NextStats ==
    LoadExcel \/ CalculateStats \/ CalculateSummaryStats \/ GenerateSummaryReport

SpecStats == InitStats /\ [][NextStats]_vars

----------------------------------------------------------------------------
(* Inputs of the duration pipeline.  A duration text is built from parts;  *)
(* a numeric part is a prefix, some superfluous zeros and the numeral of   *)
(* its value, a junk part is any other text.                               *)

NumField(pre, zeros, val) ==
    [kind |-> "num", pre |-> pre, zeros |-> zeros, val |-> val, text |-> ""]

JunkField(text) ==
    [kind |-> "junk", pre |-> "", zeros |-> 0, val |-> 0, text |-> text]

FieldText(f) ==
    IF f.kind = "num" THEN f.pre \o Repeat("0", f.zeros) \o NatToText(f.val)
    ELSE f.text

\* the value int() gives a numeric part
FieldValue(f) == IF f.pre = "-" THEN -f.val ELSE f.val

RECURSIVE JoinFields(_, _)
JoinFields(fs, i) ==
    IF i > Len(fs) THEN ""
    ELSE (IF i > 1 THEN ":" ELSE "") \o FieldText(fs[i]) \o JoinFields(fs, i + 1)

HourValues == {0, 1, 25, 100}

MinuteValues == {0, 30, 59, 61}

SecondValues == {0, 45, 59, 60}

JunkFields == {JunkField(""), JunkField("a"), JunkField("1.5")}

\* unsigned numerals with up to MaxZeros superfluous zeros, and the negated values
NumFields(values) ==
    {NumField("", z, v) : z \in 0..MaxZeros, v \in values}
    \cup {NumField("-", 0, v) : v \in values \ {0}}

HourFields ==
    NumFields(HourValues) \cup JunkFields
    \cup {NumField("-", 1, 1), NumField("+", 0, 1), NumField(" ", 0, 1)}

MinuteFields == NumFields(MinuteValues) \cup {JunkField("a")}

SecondFields == NumFields(SecondValues) \cup {JunkField("")}

FewFields == {NumField("", 0, 0), NumField("", 1, 7), JunkField("a")}

\* the texts of k parts: rich for three parts, a few for any other arity
FieldLists(k) ==
    IF k = 3
    THEN {<<h, m, x>> : h \in HourFields, m \in MinuteFields, x \in SecondFields}
    ELSE [1..k -> FewFields]

\* long durations: hours of one, two and three digits
HourSamples == {9, 10, 99, 100, 101, 1000}

SecondsInputs ==
    0..MaxSeconds
    \cup {h * 3600 + r : h \in HourSamples, r \in {0, 59, 60, 3599}}

----------------------------------------------------------------------------
(* The duration pipeline: parse a cell, format the seconds, parse again.   *)

InitDuration ==
    /\ TableIdle
    /\ SessionIdle
    /\ secs_back = 0
    /\ rendered = ""
    /\ \/ \E k \in 1..MaxParts :
             \E fs \in FieldLists(k) :
                /\ fields = fs
                /\ time_cell = StrCell(JoinFields(fs, 1))
                /\ secs = 0
                /\ dpc = "cell"
       \/ \E c \in {NaN, IntCell(90), IntCell(0)} :
                /\ fields = <<>>
                /\ time_cell = c
                /\ secs = 0
                /\ dpc = "cell"
       \/ \E n \in SecondsInputs :
                /\ fields = <<>>
                /\ time_cell = NaN
                /\ secs = n
                /\ dpc = "number"

\* seconds = time_str_to_seconds(cell)
Parse ==
    /\ dpc = "cell"
    /\ secs' = time_str_to_seconds(time_cell)
    /\ dpc' = "parsed"
    /\ UNCHANGED <<fields, time_cell, rendered, secs_back>>
    /\ UNCHANGED tblVars
    /\ UNCHANGED sessVars

\* text = seconds_to_time_str(seconds), of a parsed cell or of a given number
Format ==
    /\ dpc \in {"parsed", "number"}
    /\ rendered' = seconds_to_time_str(secs)
    /\ dpc' = IF dpc = "parsed" THEN "formatted" ELSE "number_formatted"
    /\ UNCHANGED <<fields, time_cell, secs, secs_back>>
    /\ UNCHANGED tblVars
    /\ UNCHANGED sessVars

\* time_str_to_seconds(seconds_to_time_str(n))
Reparse ==
    /\ dpc \in {"formatted", "number_formatted"}
    /\ secs_back' = time_str_to_seconds(StrCell(rendered))
    /\ dpc' = IF dpc = "formatted" THEN "reparsed" ELSE "number_reparsed"
    /\ UNCHANGED <<fields, time_cell, secs, rendered>>
    /\ UNCHANGED tblVars
    /\ UNCHANGED sessVars

NextDuration == Parse \/ Format \/ Reparse

SpecDuration == InitDuration /\ [][NextDuration]_vars

----------------------------------------------------------------------------
(* The session of src/app.py: every user event runs the script once, the   *)
(* sidebar first and then the chosen view.                                 *)

ToSet(xs) == {xs[i] : i \in 1..Len(xs)}

\* a float cell, kept as a fraction
FloatCell(num, den) == [t |-> "float", n |-> num, d |-> den]

\* time_str_to_hours
time_str_to_hours(time_str) == FloatCell(time_str_to_seconds(time_str), 3600)

\* hours * manpower, cell by cell: missing stays missing
Times(hours, manpower) ==
    IF isna(manpower) THEN NaN ELSE FloatCell(hours.n * manpower.n, hours.d)

CalculatedColumns ==
    <<"prep_time_hours", "activity_time_hours", "total_time_hours",
      "prep_work_hours", "activity_work_hours", "total_work_hours">>

\* add_calculated_columns: a copy of the table with six columns added; KeyError
\* without the fixed columns, TypeError when a manpower cell is a text
add_calculated_columns(d) ==
    IF \E name \in {PrepColumn, ActivityColumn, TotalColumn, ManpowerColumn} :
           ~HasColumn(d, name)
    THEN Raises("KeyError")
    ELSE IF \E i \in 1..Len(d.rows) : Column(d, ManpowerColumn)[i].t = "str"
    THEN Raises("TypeError")
    ELSE LET hours(name) ==
                 [i \in 1..Len(d.rows) |-> time_str_to_hours(Column(d, name)[i])]
             manpower == Column(d, ManpowerColumn)
         IN  Table(d.columns \o CalculatedColumns,
                   [i \in 1..Len(d.rows) |->
                       d.rows[i] \o
                       <<hours(PrepColumn)[i], hours(ActivityColumn)[i],
                         hours(TotalColumn)[i],
                         Times(hours(PrepColumn)[i], manpower[i]),
                         Times(hours(ActivityColumn)[i], manpower[i]),
                         Times(hours(TotalColumn)[i], manpower[i])>>])

\* how many category buttons the table view shows
ShownMain == 10

\* how many categories the summary view lists
SummaryShown == 20

\* a file that pd.read_excel cannot read
Unreadable == [none |-> FALSE, unreadable |-> TRUE]

\* a table of one row per category, one category more than the summary lists
ManyCategories ==
    Table(<<"Module", "Sub Module">>,
          [i \in 1..(SummaryShown + 1) |->
              <<StrCell(NatToText(100 + i)), StrCell("L")>>])

\* the files of the session: a hierarchy of two categories, a table without
\* a main column, one with the fixed columns and no sub column, one with
\* more categories than the views show, and one that cannot be read
SessionFiles ==
    {Table(<<"Module", "Sub Module">>,
           <<<<StrCell("H"), StrCell("L")>>, <<NaN, StrCell("M")>>,
             <<StrCell("K"), StrCell("L")>>>>),
     Table(<<"Sub Group", "Part">>,
           <<<<StrCell("L"), StrCell("x")>>, <<NaN, StrCell("y")>>>>),
     Table(<<"Module", PrepColumn, ActivityColumn, TotalColumn, ManpowerColumn>>,
           <<<<StrCell("H"), StrCell("00:10:00"), StrCell("00:20:00"),
               StrCell("00:30:00"), IntCell(2)>>,
             <<NaN, StrCell("00:10:00"), StrCell("00:20:00"),
               StrCell("00:30:00"), NaN>>>>),
     ManyCategories,
     Unreadable}

ViewModes == {"Table View", "Analytics", "Summary"}

\* the values the category buttons and the multiselect can hand back
ButtonValues == {"H", "K", NatToText(100 + ShownMain), NatToText(100 + ShownMain + 1)}

Picks == {<<>>, <<"L">>, <<"M">>, <<"L", "M">>}

\* str(st.session_state.selected_main)
MainText == IF selected_main = None THEN "None" ELSE selected_main[1]

\* one call of filter_data made by a script run: where it was made, the main
\* column and the category it was given, and whether it returned None
FilterCall(where, d, col_dict, main_value, sub_values) ==
    [where |-> where,
     main |-> col_dict.main,
     main_value |-> main_value,
     none |-> filter_data(d, col_dict, main_value, ToSet(sub_values)).none]

\* an upload block that stores the new table and leaves the columns of the
\* table before it
SidebarLoad_keep_columns(file) ==
    IF file.none \/ file = Unreadable THEN [df |-> df, cols_dict |-> cols_dict]
    ELSE [df |-> load_excel(file).df,
          cols_dict |-> IF df.none THEN load_excel(file).cols_dict ELSE cols_dict]

\* the sidebar's upload block: load_excel stores table and columns together
\* whenever the uploader holds a file, and stores neither when reading the
\* file raises
SidebarLoad(file) ==
    IF file.none \/ file = Unreadable THEN [df |-> df, cols_dict |-> cols_dict]
    ELSE load_excel(file)

\* the sidebar's export block, which runs before the main content
SidebarExport(data, col_dict) ==
    IF ~data.none /\ selected_sub # <<>>
    THEN <<FilterCall("sidebar", data, col_dict, MainText, selected_sub)>>
    ELSE <<>>

\* the outcome of a script run: the session state it leaves, whether it
\* ended in st.rerun(), the filter_data calls it made, the statistics it
\* showed, and whether the widget the event came from was on the page
Outcome(main, sub, rerun, calls, stats, ok) ==
    [selected_main |-> main, selected_sub |-> sub, rerun |-> rerun,
     calls |-> calls, stats |-> stats, ok |-> ok]

\* a category button that deselects the category when it is clicked again
OnMainButton_toggle(val) ==
    IF selected_main = Some(val)
    THEN [selected_main |-> None, selected_sub |-> selected_sub]
    ELSE [selected_main |-> Some(val), selected_sub |-> <<>>]

\* a category button that leaves the sub selection as it is
OnMainButton_keep_sub(val) == [selected_main |-> Some(val), selected_sub |-> selected_sub]

\* the body of a category button: select the category, clear the sub selection
OnMainButton(val) == [selected_main |-> Some(val), selected_sub |-> <<>>]

\* what st.multiselect hands back: the user's pick, the value it kept from
\* the run before, or its default, the first option
Multiselect(options, widget, picked) ==
    CASE widget = "picked" -> picked
      [] widget = "kept" -> selected_sub
      [] OTHER -> SubSeq(options, 1, 1)

\* xs[:n]
FirstN(xs, n) == SubSeq(xs, 1, IF Len(xs) < n THEN Len(xs) ELSE n)

\* the table view
TableView(data, col_dict, calls, clicked, widget, picked) ==
    LET main_values == get_main_values(data, col_dict)
        shown == FirstN(main_values, ShownMain)
        idle == clicked = None /\ widget = "default"
    IN  IF main_values = <<>>
        THEN Outcome(selected_main, selected_sub, FALSE, calls, None, idle)
        ELSE IF clicked # None
        THEN LET set == OnMainButton(clicked[1])
             IN  Outcome(set.selected_main, set.selected_sub, TRUE, calls, None,
                         clicked[1] \in ToSet(shown) /\ widget = "default")
        ELSE IF selected_main = None
        THEN Outcome(selected_main, selected_sub, FALSE, calls, None, idle)
        ELSE LET sub_values ==
                     IF Truthy(col_dict.sub)
                     THEN get_sub_values(data, col_dict, selected_main[1])
                     ELSE <<>>
                 sub == IF sub_values # <<>>
                        THEN Multiselect(sub_values, widget, picked)
                        ELSE selected_sub
                 filtered == filter_data(data, col_dict, selected_main[1], ToSet(sub))
                 preview == sub # <<>> /\ ~filtered.none /\ Len(filtered.rows) > 0
             IN  Outcome(selected_main, sub, FALSE,
                         IF sub # <<>>
                         THEN Append(calls, FilterCall("table", data, col_dict,
                                                       selected_main[1], sub))
                         ELSE calls,
                         IF preview THEN Some(calculate_stats(filtered, col_dict))
                         ELSE None,
                         IF sub_values # <<>>
                         THEN ToSet(sub) \subseteq ToSet(sub_values)
                         ELSE widget = "default")

\* the analytics view
Analytics(data, col_dict, calls) ==
    IF selected_main = None \/ selected_sub = <<>>
    THEN Outcome(selected_main, selected_sub, FALSE, calls, None, TRUE)
    ELSE Outcome(selected_main, selected_sub, FALSE,
                 Append(calls, FilterCall("analytics", data, col_dict,
                                          selected_main[1], selected_sub)),
                 None, TRUE)

\* the summary view's category table: for each of the first categories the
\* rows whose main cell reads as the category, counted, and their manpower
\* summed over the cells that to_numeric keeps (0 when the column is not found)
Summary(data, col_dict) ==
    LET main_values == FirstN(get_main_values(data, col_dict), SummaryShown)
        main_col == StrEach(Column(data, col_dict.main[1]))
        known == Truthy(col_dict.manpower) /\ HasColumn(data, col_dict.manpower[1])
        entry(main_val) ==
            LET in_main == {i \in 1..Len(data.rows) : main_col[i] = main_val}
                category_df == Table(data.columns, RowsAt(data.rows, in_main, 1))
            IN  [Category |-> main_val,
                 Records  |-> Len(category_df.rows),
                 Manpower |->
                     IF known
                     THEN SumSeq(Numbers(dropna(to_numeric(
                              Column(category_df, col_dict.manpower[1])))))
                     ELSE 0]
    IN  [i \in 1..Len(main_values) |-> entry(main_values[i])]

\* the main content: nothing without a table or without a main column, else
\* the chosen view
MainContent(data, col_dict, view, calls, clicked, widget, picked) ==
    IF data.none \/ ~Truthy(col_dict.main)
    THEN Outcome(selected_main, selected_sub, FALSE, calls, None,
                 clicked = None /\ widget = "default")
    ELSE CASE view = "Table View" ->
                  TableView(data, col_dict, calls, clicked, widget, picked)
           [] view = "Analytics" ->
                  LET out == Analytics(data, col_dict, calls)
                  IN  [out EXCEPT !.ok = clicked = None /\ widget = "default"]
           [] OTHER ->
                  Outcome(selected_main, selected_sub, FALSE, calls,
                          Some(Summary(data, col_dict)),
                          clicked = None /\ widget = "default")

\* one run of the script for an event: the file in the uploader, the view,
\* the button clicked (if any) and what the multiselect hands back
ScriptRun(event, file, view, clicked, widget, picked) ==
    \E loaded \in {SidebarLoad(file)} :
    \E out \in {MainContent(loaded.df, loaded.cols_dict, view,
                             SidebarExport(loaded.df, loaded.cols_dict),
                             clicked, widget, picked)} :
        /\ out.ok
        /\ df_raw' = file
        /\ df' = loaded.df
        /\ cols_dict' = loaded.cols_dict
        /\ view_mode' = view
        /\ selected_main' = out.selected_main
        /\ selected_sub' = out.selected_sub
        /\ call' = [op |-> "run", event |-> event, filter_calls |-> out.calls,
                    old_main |-> selected_main, old_sub |-> selected_sub]
        /\ ret' = out.stats
        /\ tpc' = IF out.rerun THEN "rerun" ELSE "ready"
        /\ UNCHANGED durVars

InitSession ==
    /\ DurationIdle
    /\ SessionIdle
    /\ df_raw = NoTable
    /\ df = NoTable
    /\ cols_dict = NoColumns
    /\ call = NoCall
    /\ ret = None
    /\ tpc = "ready"

\* a new file is put into the uploader
Upload ==
    /\ tpc = "ready"
    /\ \E file \in SessionFiles, widget \in {"default", "kept"} :
          /\ file # df_raw
          /\ ScriptRun("upload", file, view_mode, None, widget, <<>>)

\* a category button is clicked
ClickMain ==
    /\ tpc = "ready"
    /\ \E val \in ButtonValues :
          ScriptRun("click", df_raw, view_mode, Some(val), "default", <<>>)

\* the selection of the multiselect is changed
SelectSub ==
    /\ tpc = "ready"
    /\ \E picked \in Picks :
          /\ picked # selected_sub
          /\ ScriptRun("select_sub", df_raw, view_mode, None, "picked", picked)

\* another view is chosen in the sidebar
SwitchView ==
    /\ tpc = "ready"
    /\ \E view \in ViewModes, widget \in {"default", "kept"} :
          /\ view # view_mode
          /\ ScriptRun("view", df_raw, view, None, widget, <<>>)

\* the run that st.rerun() starts
Rerun ==
    /\ tpc = "rerun"
    /\ \E widget \in {"default", "kept"} :
          ScriptRun("rerun", df_raw, view_mode, None, widget, <<>>)

\* add_calculated_columns that writes the new columns into the table it was given
AddCalculatedColumnsInPlace ==
    /\ tpc = "ready"
    /\ ~df.none
    /\ ret' = add_calculated_columns(df)
    /\ df' = IF Raised(ret') THEN df ELSE ret'
    /\ call' = [op |-> "add_calculated_columns"]
    /\ UNCHANGED <<df_raw, cols_dict, tpc>>
    /\ UNCHANGED sessVars
    /\ UNCHANGED durVars

\* add_calculated_columns(st.session_state.data)
AddCalculatedColumns ==
    /\ tpc = "ready"
    /\ ~df.none
    /\ ret' = add_calculated_columns(df)
    /\ call' = [op |-> "add_calculated_columns"]
    /\ UNCHANGED <<df_raw, df, cols_dict, tpc>>
    /\ UNCHANGED sessVars
    /\ UNCHANGED durVars

NextSession ==
    Upload \/ ClickMain \/ SelectSub \/ SwitchView \/ Rerun \/ AddCalculatedColumns

SpecSession == InitSession /\ [][NextSession]_vars

----------------------------------------------------------------------------
(* Claims about the duration codec, checked under SpecDuration.            *)

\* the input was a text of exactly three numeric parts
ThreeNumericFields ==
    Len(fields) = 3 /\ \A i \in 1..3 : fields[i].kind = "num"

\* the input was a text H:MM:SS with H >= 0 and 0 <= MM, SS <= 59, in any padding
ValidHMS ==
    /\ ThreeNumericFields
    /\ \A i \in 1..3 : fields[i].pre = ""
    /\ fields[2].val <= 59
    /\ fields[3].val <= 59

\* a text zero-padded on the left to at least two characters
Pad2(s) == IF Len(s) < 2 THEN Repeat("0", 2 - Len(s)) \o s ELSE s

\* the input text with each field zero-padded to at least two digits
PaddedInput ==
    Pad2(FieldText(fields[1])) \o ":" \o Pad2(FieldText(fields[2]))
        \o ":" \o Pad2(FieldText(fields[3]))

\* the input text with each field's superfluous zeros dropped and the field
\* then zero-padded to at least two digits
CanonicalInput ==
    Pad2(NatToText(fields[1].val)) \o ":" \o Pad2(NatToText(fields[2].val))
        \o ":" \o Pad2(NatToText(fields[3].val))

\* C6: for every input, time_str_to_seconds returns a non-negative integer
\* (the model's time_str_to_seconds has no raising outcome: int()'s ValueError
\* is the only exception these inputs can cause, and it is caught)
C6_ParseNonNegative == dpc = "parsed" => secs >= 0

\* C7 as stated: for a valid H:MM:SS text t, seconds_to_time_str(
\* time_str_to_seconds(t)) is t with its fields zero-padded to at least two digits
C7_RoundTripPadded ==
    (dpc = "formatted" /\ ValidHMS) => rendered = PaddedInput

\* C7 as amended: for a valid H:MM:SS text t, seconds_to_time_str(
\* time_str_to_seconds(t)) is t with each field's superfluous leading zeros
\* dropped and the field then zero-padded to at least two digits; it is t
\* itself exactly when t is already in that canonical form
C7_RoundTripCanonical ==
    (dpc = "formatted" /\ ValidHMS) =>
        /\ rendered = CanonicalInput
        /\ (rendered = time_cell.s) <=> (time_cell.s = CanonicalInput)

\* a valid text with an under-padded and an over-padded field was normalised
C7_Witness ==
    /\ dpc = "formatted"
    /\ ValidHMS
    /\ time_cell.s = "1:030:45"
    /\ rendered = "01:30:45"

\* C8: a text of exactly three integer parts h, m, s parses to
\* h*3600 + m*60 + s, whatever the range and sign of the parts; every other
\* cell (another number of parts, a part that is no integer, a missing cell)
\* parses to 0
C8_ParseThreeIntegerParts ==
    dpc = "parsed" =>
        secs = IF ThreeNumericFields
               THEN FieldValue(fields[1]) * 3600 + FieldValue(fields[2]) * 60
                        + FieldValue(fields[3])
               ELSE 0

\* "25:61:00" was parsed to 25*3600 + 61*60 + 0
C8_Witness ==
    /\ dpc = "parsed"
    /\ time_cell = StrCell("25:61:00")
    /\ secs = 93660

\* C9: for a non-negative n, seconds_to_time_str(n) is h:mm:ss with
\* h = n div 3600 in at least two digits (no further leading zero),
\* m = (n mod 3600) div 60 and s = n mod 60 in exactly two digits and in
\* 0..59, h*3600 + m*60 + s = n, parsing it gives n back, and 5445 renders
\* as "01:30:45"
C9_FormatDuration ==
    dpc \in {"number_formatted", "number_reparsed"} =>
        LET parts == split(rendered, ":")
            h == DigitsValue(parts[1], 0)
            m == DigitsValue(parts[2], 0)
            x == DigitsValue(parts[3], 0)
        IN  /\ Len(parts) = 3
            /\ \A i \in 1..3 : AllDigits(parts[i])
            /\ Len(parts[1]) >= 2
            /\ Len(parts[1]) > 2 => Head(parts[1]) # "0"
            /\ Len(parts[2]) = 2
            /\ Len(parts[3]) = 2
            /\ h = secs \div 3600
            /\ m = (secs % 3600) \div 60 /\ m <= 59
            /\ x = secs % 60 /\ x <= 59
            /\ h * 3600 + m * 60 + x = secs
            /\ secs = 5445 => rendered = "01:30:45"
            /\ dpc = "number_reparsed" => secs_back = secs

\* 5445 was rendered as "01:30:45" and parsed back to 5445
C9_Witness ==
    /\ dpc = "number_reparsed"
    /\ secs = 5445
    /\ rendered = "01:30:45"
    /\ secs_back = 5445


----------------------------------------------------------------------------
(* Claims about the column detector, checked under SpecDetect.             *)

\* the name as the detector compares it
Folded(name) == strip(lower(name))

Min(S) == CHOOSE x \in S : \A y \in S : x <= y

\* the positions of the header whose name contains the role's k-th keyword
ColumnsWithKeyword(columns, r, k) ==
    {i \in 1..Len(columns) : contains(Folded(columns[i]), Keywords[r][k])}

\* the positions of the header whose name contains any keyword of the role
ColumnsWithAnyKeyword(columns, r) ==
    UNION {ColumnsWithKeyword(columns, r, k) : k \in 1..Len(Keywords[r])}

\* the first column in header order that contains any keyword of the role
FirstInHeaderOrder(columns, r) ==
    IF ColumnsWithAnyKeyword(columns, r) = {} THEN None
    ELSE Some(columns[Min(ColumnsWithAnyKeyword(columns, r))])

\* the first column in header order that contains the earliest keyword of the
\* role's list that any column contains
FirstByKeywordPriority(columns, r) ==
    IF ColumnsWithAnyKeyword(columns, r) = {} THEN None
    ELSE LET k == Min({j \in 1..Len(Keywords[r]) :
                          ColumnsWithKeyword(columns, r, j) # {}})
         IN  Some(columns[Min(ColumnsWithKeyword(columns, r, k))])

C10_SubNeedsSubAndModule ==
    tpc = "detected" =>
        /\ cols_dict.sub # None =>
              /\ contains(Folded(cols_dict.sub[1]), "sub")
              /\ contains(Folded(cols_dict.sub[1]), "module")
        /\ (\A i \in 1..Len(df_raw.columns) :
               ~(/\ contains(Folded(df_raw.columns[i]), "sub")
                 /\ contains(Folded(df_raw.columns[i]), "module")))
              => cols_dict.sub = None

\* C10 as amended: the sub role resolves only to a column of the header whose
\* name contains "sub" or "group" ("module" is not needed): the first column
\* containing "sub" if there is one, else the first containing "group"; it is
\* absent exactly when the header has no such column
C10_SubNeedsSubOrGroup ==
    tpc = "detected" =>
        LET columns == df_raw.columns
            withSub == {i \in 1..Len(columns) : contains(Folded(columns[i]), "sub")}
            withGroup == {i \in 1..Len(columns) : contains(Folded(columns[i]), "group")}
        IN  cols_dict.sub =
                IF withSub # {} THEN Some(columns[Min(withSub)])
                ELSE IF withGroup # {} THEN Some(columns[Min(withGroup)])
                ELSE None

\* "Sub Category", which does not contain "module", was taken as the sub column
C10_Witness ==
    /\ tpc = "detected"
    /\ df_raw.columns = <<"Module", "Sub Category">>
    /\ cols_dict.sub = Some("Sub Category")

\* C11: the total_time role resolves only to a column whose name contains
\* "total" together with "time" or "duration"
C11_TotalNeedsTotalAndTime ==
    (tpc = "detected" /\ cols_dict.total_time # None) =>
        LET name == Folded(cols_dict.total_time[1])
        IN  /\ contains(name, "total")
            /\ contains(name, "time") \/ contains(name, "duration")

\* C12: for the header of seven columns named "Main Category" ... "Staff
\* Count" every role resolves to the column of its scenario
C12_ScenarioRoles ==
    (tpc = "detected" /\ df_raw.columns = ScenarioHeader) =>
        cols_dict = [main          |-> Some("Main Category"),
                     sub           |-> Some("Sub Category"),
                     component     |-> Some("Item Name"),
                     prep_time     |-> Some("Prep Time"),
                     activity_time |-> Some("Work Time"),
                     total_time    |-> Some("Total Duration"),
                     manpower      |-> Some("Staff Count")]

\* the detector has run on the header of the scenario and resolved all roles
C12_Witness ==
    /\ tpc = "detected"
    /\ df_raw.columns = ScenarioHeader
    /\ \A r \in Roles : cols_dict[r] # None

\* C13: for every header, the empty one included, the detector returns a
\* map over exactly the seven roles in which every role is absent or the name
\* of a column of the header
C13_RoleMapOverHeader ==
    tpc = "detected" =>
        /\ DOMAIN cols_dict =
               {"main", "sub", "component", "prep_time", "activity_time",
                "total_time", "manpower"}
        /\ \A r \in DOMAIN cols_dict :
               \/ cols_dict[r] = None
               \/ \E i \in 1..Len(df_raw.columns) :
                      cols_dict[r] = Some(df_raw.columns[i])

\* two roles resolved to the same column: "Total Manpower" is both the total
\* time and the manpower column, next to a category column
C13_Witness ==
    /\ tpc = "detected"
    /\ df_raw.columns = <<"Module", "Total Manpower">>
    /\ cols_dict.total_time = Some("Total Manpower")
    /\ cols_dict.manpower = cols_dict.total_time
    /\ cols_dict.main = Some("Module")
    /\ cols_dict.prep_time = None

----------------------------------------------------------------------------
(* Claims about load_excel, get_main_values and filter_data, checked under *)
(* SpecTable.                                                              *)

\* a table has been loaded and its main (category) column was detected
LoadedWithMain == tpc \in {"loaded", "called"} /\ cols_dict.main # None

\* the rows above row i whose cell in the column was not missing in the file
PresentAbove(name, i) ==
    {j \in 1..(i - 1) : ~isna(Column(df_raw, name)[j])}

Max(S) == CHOOSE x \in S : \A y \in S : y <= x

\* C1: after load_excel, a category cell that was missing in the file holds
\* the file's value of the nearest row above it whose category cell was not
\* missing, and stays missing if there is no such row; a category cell that
\* was not missing keeps its value
C1_ForwardFill ==
    LoadedWithMain =>
        LET name == cols_dict.main[1]
            before == Column(df_raw, name)
            after == Column(df, name)
        IN  /\ Len(df.rows) = Len(df_raw.rows)
            /\ \A i \in 1..Len(df_raw.rows) :
                  after[i] =
                      IF ~isna(before[i]) THEN before[i]
                      ELSE IF PresentAbove(name, i) = {} THEN NaN
                      ELSE before[Max(PresentAbove(name, i))]

\* a category column read as (missing, x, missing, ...) was loaded as
\* (missing, x, x, ...): the leading gap stays, the later one is filled
C1_Witness ==
    /\ LoadedWithMain
    /\ Len(df_raw.rows) >= 3
    /\ LET before == Column(df_raw, cols_dict.main[1])
           after == Column(df, cols_dict.main[1])
       IN  /\ isna(before[1]) /\ isna(after[1])
           /\ ~isna(before[2])
           /\ isna(before[3]) /\ after[3] = before[2]

\* C3: the list get_main_values returns is strictly ascending (so it has no
\* duplicates) and holds no missing value
C3_MainValuesStrictlyAscending ==
    (tpc = "called" /\ call.op = "get_main_values") =>
        /\ \A i \in 1..Len(ret) : ret[i] # str(NaN)
        /\ \A i \in 1..(Len(ret) - 1) : StrLess(ret[i], ret[i + 1])

\* the rows of the loaded table that a selection picks: the main cell, as
\* text, is the category, and - if sub values are chosen and a sub column was
\* detected - the sub cell, as text, is one of them
Picked(main_value, sub_values) ==
    {i \in 1..Len(df.rows) :
        /\ str(Column(df, cols_dict.main[1])[i]) = main_value
        /\ (sub_values # {} /\ cols_dict.sub # None) =>
               str(Column(df, cols_dict.sub[1])[i]) \in sub_values}

C24_SubValuesOfCategory ==
    (tpc = "called" /\ call.op = "get_sub_values") =>
        IF cols_dict.main = None \/ cols_dict.sub = None THEN ret = <<>>
        ELSE LET main_col == Column(df, cols_dict.main[1])
                 sub_col == Column(df, cols_dict.sub[1])
             IN  /\ \A i \in 1..Len(ret) :
                        \E j \in 1..Len(df.rows) :
                            /\ str(main_col[j]) = call.main_value
                            /\ ~isna(sub_col[j])
                            /\ str(sub_col[j]) = ret[i]
                 /\ \A i \in 1..(Len(ret) - 1) : ~StrLess(ret[i + 1], ret[i])

\* get_sub_values returned a sub value of the category and left out the sub
\* value of a row of another category
C24_Witness ==
    /\ tpc = "called" /\ call.op = "get_sub_values"
    /\ cols_dict.main # None /\ cols_dict.sub # None
    /\ cols_dict.main # cols_dict.sub
    /\ Len(ret) > 0
    /\ \E j \in 1..Len(df.rows) :
          LET c == Column(df, cols_dict.sub[1])[j]
          IN  ~isna(c) /\ \A i \in 1..Len(ret) : ret[i] # str(c)

----------------------------------------------------------------------------
(* Claims about normalisation and about filter_data without a main column, *)
(* checked under SpecNormalize.                                            *)

\* C14: when the main role is absent, load_excel changes no cell of the table
C14_NoMainNoChange ==
    (tpc = "loaded" /\ cols_dict.main = None) => df = df_raw

\* the roles whose columns normalisation is to leave alone
UntouchedRoles ==
    {"component", "prep_time", "activity_time", "total_time", "manpower"}

\* C15: load_excel leaves every cell of the columns resolved to component,
\* prep_time, activity_time, total_time and manpower as it was read, also
\* when such a column is the main or the sub column as well
C15_OtherRolesUntouched ==
    tpc = "loaded" =>
        \A r \in UntouchedRoles :
            cols_dict[r] # None =>
                Column(df, cols_dict[r][1]) = Column(df_raw, cols_dict[r][1])

\* C16: load_excel applied to a table it has already normalised returns that
\* table cell for cell (and the same columns)
C16_NormalizeIdempotent ==
    (tpc = "called" /\ call.op = "load_again") =>
        /\ ret.df = df
        /\ ret.cols_dict = cols_dict

\* the second load came after a first one that filled gaps in the main and in
\* the sub column and left a leading gap of the sub column open
C16_Witness ==
    /\ tpc = "called" /\ call.op = "load_again"
    /\ cols_dict.main # None /\ cols_dict.sub # None
    /\ cols_dict.main # cols_dict.sub
    /\ Column(df, cols_dict.main[1]) # Column(df_raw, cols_dict.main[1])
    /\ Column(df, cols_dict.sub[1]) # Column(df_raw, cols_dict.sub[1])
    /\ isna(Column(df, cols_dict.sub[1])[1])
    /\ ret.df = df

\* C19: filter_data called with columns whose main role is unresolved returns
\* None, which is no table at all and so differs from every table without rows
C19_NoMainGivesNone ==
    (tpc = "called" /\ call.op = "filter_data" /\ cols_dict.main = None) =>
        /\ ret = NoTable
        /\ ret.none
        /\ ret # Table(df.columns, <<>>)

\* filter_data was called with chosen sub values on a loaded table that has
\* rows and a sub column but no main column, and returned None
C19_Witness ==
    /\ tpc = "called" /\ call.op = "filter_data"
    /\ cols_dict.main = None /\ cols_dict.sub # None
    /\ ~df.none /\ Len(df.rows) > 0
    /\ call.sub_values # {}
    /\ ret.none

\* the texts of a list, each followed by a line break
RECURSIVE Lines(_)
Lines(texts) ==
    IF Len(texts) = 0 THEN "" ELSE Head(texts) \o "\n" \o Lines(Tail(texts))

\* the texts of a list with commas between them
RECURSIVE Commas(_)
Commas(texts) ==
    IF Len(texts) = 0 THEN ""
    ELSE IF Len(texts) = 1 THEN texts[1]
    ELSE texts[1] \o "," \o Commas(Tail(texts))

\* C25: the CSV export of a table, one without rows included, is the header
\* line (the column names in the table's order, comma-separated) followed by
\* one line per row, in row order, of the row's cells in column order
C25_CsvHeaderThenRows ==
    (tpc = "called" /\ call.op = "prepare_export_csv") =>
        ret = Text(Lines(<<Commas(df.columns)>> \o
                         [i \in 1..Len(df.rows) |->
                             Commas([k \in 1..Len(df.columns) |->
                                        IF isna(df.rows[i][k]) THEN ""
                                        ELSE str(df.rows[i][k])])]))

----------------------------------------------------------------------------
(* Claims about the session, checked under SpecSession.                    *)

\* C17: once a table is stored, a step that leaves the uploader's file alone
\* (a category click, a sub-category selection, a view switch, a rerun with
\* its listing, filtering, statistics and export, add_calculated_columns)
\* leaves every cell of the stored table as it was
C17_StoredTableUnchanged ==
    [][(~df.none /\ df_raw' = df_raw) => df' = df]_vars

\* a sub-category selection was handled on a stored table: the run filtered
\* for the sidebar export and for the preview and showed statistics
C17_Witness ==
    /\ tpc = "ready"
    /\ call.op = "run" /\ call.event = "select_sub"
    /\ Len(call.filter_calls) = 2
    /\ ret # None
    /\ ~df.none /\ df_raw # Unreadable
    /\ df = load_excel(df_raw).df /\ df # df_raw

C20_FilterOnlyWithMain ==
    call.op = "run" =>
        \A i \in 1..Len(call.filter_calls) : call.filter_calls[i].main # None

\* the distinct category values of the stored table, as texts
Categories ==
    {str(c) : c \in ToSet(dropna(Column(df, cols_dict.main[1])))}

\* the sum of the numeric manpower cells of the rows of a table
NumericManpowerSum(d) ==
    IF Truthy(cols_dict.manpower) /\ HasColumn(d, cols_dict.manpower[1])
    THEN SumSeq(Numbers(SelectSeq(Column(d, cols_dict.manpower[1]),
                                  LAMBDA c : c.t = "int")))
    ELSE 0

\* C23: the category table the summary view shows has exactly one entry per
\* distinct category value of the stored table, in ascending order, however
\* many categories there are; an entry's count is the number of rows
\* filter_data returns for the category with no sub-category, its manpower
\* the sum of the numeric manpower cells of those rows
C23_SummaryEntryPerCategory ==
    (call.op = "run" /\ view_mode = "Summary" /\ ret # None) =>
        LET summary == ret[1]
            of(i) == filter_data(df, cols_dict, summary[i].Category, {})
        IN  /\ {summary[i].Category : i \in 1..Len(summary)} = Categories
            /\ \A i, j \in 1..Len(summary) :
                   i < j => StrLess(summary[i].Category, summary[j].Category)
            /\ \A i \in 1..Len(summary) :
                   /\ summary[i].Records = Len(of(i).rows)
                   /\ summary[i].Manpower = NumericManpowerSum(of(i))

\* C27: whenever a table is stored, the stored columns are what
\* detect_columns finds in the header of that table; an upload replaces
\* both together and an upload that fails replaces neither
C27_ColumnsOfStoredTable ==
    ~df.none => cols_dict = detect_columns(df.columns)

\* a file that cannot be read has just been uploaded over a stored table
\* whose columns were detected
C27_Witness ==
    /\ call.op = "run" /\ call.event = "upload"
    /\ df_raw = Unreadable
    /\ ~df.none /\ Truthy(cols_dict.main)

\* C28: the selected category, when set, is a category value of the stored
\* table, and every selected sub-category is a sub-category of that category
\* in the stored table
C28_SelectionWithinStoredTable ==
    selected_main # None =>
        /\ selected_main[1] \in ToSet(get_main_values(df, cols_dict))
        /\ ToSet(selected_sub) \subseteq
               ToSet(get_sub_values(df, cols_dict, selected_main[1]))

\* C29: sub-categories are selected only while a category is selected, and
\* no script run calls filter_data with sub-categories and no category
C29_SubSelectionNeedsMain ==
    /\ selected_sub # <<>> => selected_main # None
    /\ call.op = "run" =>
           \A i \in 1..Len(call.filter_calls) :
               call.filter_calls[i].main_value # "None"

\* a run with sub-categories selected has just filtered for the sidebar
\* export and for the analytics view
C29_Witness ==
    /\ call.op = "run"
    /\ selected_sub # <<>>
    /\ {call.filter_calls[i].where : i \in 1..Len(call.filter_calls)}
           = {"sidebar", "analytics"}

\* the table view of the stored table has a button for the category, and a
\* click on it selects the category
CanSelect(v) ==
    LET out == MainContent(df, cols_dict, "Table View",
                           SidebarExport(df, cols_dict), Some(v), "default", <<>>)
    IN  out.ok /\ out.selected_main = Some(v)

\* C30: for every stored table, every category value that get_main_values
\* returns can be made the selected category in the table view, however
\* many categories the table has
C30_EveryCategorySelectable ==
    (tpc = "ready" /\ view_mode = "Table View" /\ ~df.none
        /\ Truthy(cols_dict.main)) =>
        \A v \in ToSet(get_main_values(df, cols_dict)) : CanSelect(v)

\* the category past the shown ones is never the selected category
PastShownNeverSelected ==
    selected_main # Some(NatToText(100 + ShownMain + 1))

----------------------------------------------------------------------------
(* Claims about the statistics, checked under SpecStats.                   *)

\* the numbers among the manpower cells of the loaded table
NumericManpower ==
    LET col == Column(df, cols_dict.manpower[1])
    IN  Numbers(SelectSeq(col, LAMBDA c : c.t = "int"))

\* C5: with a manpower column detected, the statistics call does not raise
\* and reports total, max, min and mean manpower over the numeric manpower
\* cells alone, all four 0 when there is none
C5_ManpowerOverNumericCells ==
    (/\ tpc = "called"
     /\ call.op \in {"calculate_stats", "calculate_summary_stats"}
     /\ cols_dict.manpower # None) =>
        /\ ~Raised(ret)
        /\ {"total_manpower", "max_manpower", "min_manpower", "avg_manpower"}
               \subseteq DOMAIN ret
        /\ LET m == NumericManpower
           IN  IF Len(m) = 0
               THEN /\ ret.total_manpower = 0 /\ ret.max_manpower = 0
                    /\ ret.min_manpower = 0 /\ ret.avg_manpower = Zero
               ELSE /\ ret.total_manpower = SumSeq(m)
                    /\ ret.max_manpower = MaxOf(m)
                    /\ ret.min_manpower = MinOf(m)
                    /\ ret.avg_manpower = [num |-> SumSeq(m), den |-> Len(m)]

\* C5 for calculate_summary_stats alone, which has all four fields
C5_SummaryStatsOverNumericCells ==
    (tpc = "called" /\ call.op = "calculate_summary_stats") =>
        C5_ManpowerOverNumericCells

\* C21: for every table, the empty one included, the statistics call does
\* not raise and returns a record that has the record count, equal to the
\* number of rows, and the manpower and duration fields
C21_StatsRecordForEveryTable ==
    /\ (tpc = "called" /\ call.op = "calculate_stats") =>
           /\ ~Raised(ret)
           /\ {"records", "total_time", "total_manpower", "avg_manpower"}
                  \subseteq DOMAIN ret
           /\ ret.records = Len(df.rows)
    /\ (tpc = "called" /\ call.op = "calculate_summary_stats") =>
           /\ ~Raised(ret)
           /\ {"total_sub_components", "total_preparation_time",
               "total_activity_time", "total_time", "total_manpower",
               "avg_manpower"} \subseteq DOMAIN ret
           /\ ret.total_sub_components = Len(df.rows)

\* the sum of time_str_to_seconds over the cells of a column of the loaded table
SecondsOf(name) ==
    SumSeq([i \in 1..Len(df.rows) |-> time_str_to_seconds(Column(df, name)[i])])

\* the field in which the statistics report the sum of a duration role
DurationField ==
    [prep_time     |-> "total_preparation_time",
     activity_time |-> "total_activity_time",
     total_time    |-> "total_time"]

\* C22: for each of the three duration roles that is resolved, the
\* statistics call reports the sum of time_str_to_seconds over that role's column
C22_DurationSumsPerRole ==
    (tpc = "called" /\ call.op \in {"calculate_stats", "calculate_summary_stats"}) =>
        \A r \in DOMAIN DurationField :
            cols_dict[r] # None =>
                /\ ~Raised(ret)
                /\ DurationField[r] \in DOMAIN ret
                /\ ret[DurationField[r]] = SecondsOf(cols_dict[r][1])

\* C26: generate_summary_report does not raise: it returns a text, and for a
\* table without rows the text "No data to generate report"
C26_ReportIsText ==
    (tpc = "called" /\ call.op = "generate_summary_report") =>
        /\ ~Raised(ret)
        /\ "text" \in DOMAIN ret
        /\ Len(df.rows) = 0 => ret = Text("No data to generate report")

=============================================================================
